---------------------------- MODULE Spec2Model ----------------------------
(***************************************************************************)
(* Model of streamlit_solar_dashboard.py: the seasonal synthetic dataset   *)
(* generator (generate_seasonal_data, generate_all_seasons_data), the      *)
(* st.cache_data memoisation around both, and the filtering done by main.  *)
(*                                                                         *)
(* Numbers.  Python floats are modelled as fixed-point integers:           *)
(*   - a raw sampled feature is an integer number of thousandths (Milli),  *)
(*   - a stored (rounded) feature and a stored kwh are hundredths,         *)
(*   - the scoring formulas have coefficients in thousandths, so a raw     *)
(*     kwh is an integer number of millionths.                             *)
(* round(x, 2) is Round2: nearest hundredth, ties to the even hundredth.   *)
(*                                                                         *)
(* Randomness.  np.random is a deterministic generator with a hidden       *)
(* state seeded from outside the program; it is modelled as the variable   *)
(* rng (a full-period congruential generator over 0..RngMod-1) whose       *)
(* initial value is unknown.  One call of np.random.uniform reads rng as   *)
(* the fraction rng/RngMod in [0,1) and advances it.                       *)
(***************************************************************************)
EXTENDS Integers, Sequences, FiniteSets, TLC

VARIABLES
    rng,                 \* state of the process-wide random source
    numpy_strict,        \* build: does uniform(low, high) reject low > high
    feature_ranges,      \* season -> (feature -> <<min, max>>)
    season_months_days,  \* season -> sequence of <<month, days>>
    cache_seasonal,      \* st.cache_data store of generate_seasonal_data
    cache_all,           \* st.cache_data store of generate_all_seasons_data
    draws,               \* history: every raw value uniform() has returned
    arg_season,          \* the season of the direct generate_seasonal_data call
    result,              \* outcome of the last direct generate_seasonal_data call
    calls,               \* number of direct generate_seasonal_data calls made
    df,                  \* main: the generated table
    selected_seasons,    \* main: season multiselect
    selected_months,     \* main: month multiselect
    kwh_range,           \* main: <<kwh_min, kwh_max>> of the slider
    filtered_df,         \* main: the filtered table
    phase                \* "not run", "first run" (of the script) or "rerun"

vars == <<rng, numpy_strict, feature_ranges, season_months_days, cache_seasonal,
          cache_all, draws, arg_season, result, calls, df, selected_seasons,
          selected_months, kwh_range, filtered_df, phase>>

unitVars == <<arg_season, result, calls>>
mainVars == <<df, selected_seasons, selected_months, kwh_range, filtered_df, phase>>
cfgVars  == <<numpy_strict, feature_ranges, season_months_days>>

-----------------------------------------------------------------------------
(* Bounds of the model *)

\* initial states of the random source: 0..MaxSeed
MaxSeed == 3
\* the same, for the run with the shipped tables
MaxSeedShipped == 24
\* months in a calendar table of a direct call
MaxMonths == 2
\* months in the dashboard's cut-down calendar
AppMonths == 4
\* largest day count in a bounded calendar table
MaxDays == 2
\* direct calls of generate_seasonal_data
MaxCalls == 2
\* slider positions explored between its two ends
SliderStops == 1

-----------------------------------------------------------------------------
(* Fixed-point arithmetic *)

Milli == 1000
RngMod == 256

\* An entry of a st.cache_data store: nothing stored, or the stored value.
NoEntry == [hit |-> FALSE, value |-> <<>>]
Entry(v) == [hit |-> TRUE, value |-> v]

Abs(x) == IF x < 0 THEN 0 - x ELSE x

\* Nearest multiple of unit, as a count of units; a tie goes to the even count.
RoundHalfEven(n, unit) ==
    LET q == n \div unit
        r == n % unit
    IN  IF 2 * r < unit THEN q
        ELSE IF 2 * r > unit THEN q + 1
        ELSE IF q % 2 = 0 THEN q ELSE q + 1

\* round(x, 2): x in units of 1/(100*unit), the result in hundredths.
Round2(x, unit) == RoundHalfEven(x, unit)


-----------------------------------------------------------------------------
(* The module-level tables *)

Seasons == {"summer", "monsoon", "winter"}

\* The order of generate_all_seasons_data's loop.
SeasonOrder == <<"summer", "monsoon", "winter">>

\* The place of a season in that order.
SeasonPos(s) == CHOOSE i \in 1..Len(SeasonOrder) : SeasonOrder[i] = s

\* The order in which one row's features are sampled.
FeatureOrder ==
    <<"irradiance", "humidity", "wind_speed", "ambient_temperature", "tilt_angle">>

Features == {FeatureOrder[i] : i \in 1..Len(FeatureOrder)}

\* feature_ranges as shipped: (min, max) per season and feature.
ShippedRanges ==
    [s \in Seasons |->
        CASE s = "summer" ->
                [irradiance |-> <<600, 1000>>, humidity |-> <<10, 50>>,
                 wind_speed |-> <<0, 5>>, ambient_temperature |-> <<30, 45>>,
                 tilt_angle |-> <<10, 40>>]
          [] s = "monsoon" ->
                [irradiance |-> <<100, 600>>, humidity |-> <<70, 100>>,
                 wind_speed |-> <<2, 8>>, ambient_temperature |-> <<20, 35>>,
                 tilt_angle |-> <<10, 40>>]
          [] s = "winter" ->
                [irradiance |-> <<300, 700>>, humidity |-> <<30, 70>>,
                 wind_speed |-> <<1, 6>>, ambient_temperature |-> <<5, 20>>,
                 tilt_angle |-> <<10, 40>>]]

\* season_months_days as shipped: months in declared order with their days.
ShippedMonthsDays ==
    [s \in Seasons |->
        CASE s = "summer" ->
                << <<"March", 31>>, <<"April", 30>>, <<"May", 31>>, <<"June", 30>> >>
          [] s = "monsoon" ->
                << <<"July", 31>>, <<"August", 31>>, <<"September", 30>>,
                   <<"October", 31>> >>
          [] s = "winter" ->
                << <<"November", 30>>, <<"December", 31>>, <<"January", 31>>,
                   <<"February", 28>> >>]

-----------------------------------------------------------------------------
(* The scoring formulas *)

\* Coefficients in thousandths: irradiance, humidity, wind_speed,
\* ambient_temp, |tilt_angle - 30|.
Coefficients ==
    [s \in Seasons |->
        CASE s = "summer"  -> <<250, 0 - 50, 20, 100, 0 - 30>>
          [] s = "monsoon" -> <<150, 0 - 100, 10, 50, 0 - 40>>
          [] s = "winter"  -> <<180, 0 - 30, 15, 80, 0 - 20>>]

\* calc_kwh_<season>(irradiance, humidity, wind_speed, ambient_temp, tilt_angle):
\* the arguments v[1..5] in thousandths, the result in millionths.
calc_func(season, v) ==
    LET c == Coefficients[season]
    IN  c[1] * v[1] + c[2] * v[2] + c[3] * v[3] + c[4] * v[4]
        + c[5] * Abs(v[5] - 30 * Milli)

-----------------------------------------------------------------------------
(* The random source *)

NextRng(s) == (77 * s + 55) % RngMod

\* The value np.random.uniform(low, high) returns when the source is in state
\* s: low + (high - low) * u with u = s / RngMod, in thousandths.
Uniform(low, high, s) == low * Milli + ((high - low) * Milli * s) \div RngMod

\* Does np.random.uniform(low, high) raise?  With low > high its result is
\* documented as undefined: the build either computes the formula above or
\* rejects the arguments.
UniformRaises(low, high) == numpy_strict /\ low > high

-----------------------------------------------------------------------------
(* generate_seasonal_data *)

\* F applied to the value of v (v is computed once, then used by F).
Eval(v, F(_)) == CHOOSE r \in {F(x) : x \in {v}} : TRUE

\* The five np.random.uniform(*season_ranges[f]) calls of one loop body, in
\* order, from feature i on.  st = [raised, values, rng]: season_ranges[f]
\* raises KeyError when f has no range, and the draws made before it stay made.
RECURSIVE SampleFrom(_, _, _)
SampleFrom(i, season_ranges, st) ==
    IF i > Len(FeatureOrder) THEN st
    ELSE Eval(st, LAMBDA x :
            IF FeatureOrder[i] \notin DOMAIN season_ranges
               THEN [x EXCEPT !.raised = TRUE]
            ELSE IF UniformRaises(season_ranges[FeatureOrder[i]][1],
                                  season_ranges[FeatureOrder[i]][2])
               THEN [x EXCEPT !.raised = TRUE]
            ELSE SampleFrom(i + 1, season_ranges,
                    [raised |-> FALSE,
                     values |-> Append(x.values,
                                   Uniform(season_ranges[FeatureOrder[i]][1],
                                           season_ranges[FeatureOrder[i]][2],
                                           x.rng)),
                     rng    |-> NextRng(x.rng)]))

\* A row whose kwh is scored on the features as stored, after their rounding.
MakeRowRoundFirst(season, month, v) ==
    [irradiance          |-> Round2(v[1], 10),
     humidity            |-> Round2(v[2], 10),
     wind_speed          |-> Round2(v[3], 10),
     ambient_temperature |-> Round2(v[4], 10),
     tilt_angle          |-> Round2(v[5], 10),
     kwh                 |-> Round2(calc_func(season,
                                [i \in 1..5 |-> 10 * Round2(v[i], 10)]), 10000),
     season              |-> season,
     month               |-> month]

\* kwh = calc_func(irr, hum, wind, temp, tilt) on the raw samples v, then the
\* dict appended to data: every number rounded to 2 decimals.
MakeRow(season, month, v) ==
    [irradiance          |-> Round2(v[1], 10),
     humidity            |-> Round2(v[2], 10),
     wind_speed          |-> Round2(v[3], 10),
     ambient_temperature |-> Round2(v[4], 10),
     tilt_angle          |-> Round2(v[5], 10),
     kwh                 |-> Round2(calc_func(season, v), 10000),
     season              |-> season,
     month               |-> month]

\* range(days + 1): one iteration too many.
RangeLenPlusOne(days) == IF days > 0 THEN days + 1 ELSE 0

\* range(max(days, 1)): a month never goes without a row.
RangeLenAtLeastOne(days) == IF days > 0 THEN days ELSE 1

\* The number of iterations of `for _ in range(days)`.
RangeLen(days) == IF days > 0 THEN days ELSE 0

\* One iteration of the inner loop: sample, score, append.
\* st = [raised, data, rng, drawn]; nothing runs after an exception.
DayBody(season, season_ranges, month, st) ==
    Eval(st, LAMBDA x :
        IF x.raised THEN x
        ELSE Eval(SampleFrom(1, season_ranges,
                        [raised |-> FALSE, values |-> <<>>, rng |-> x.rng]),
                  LAMBDA smp :
                    [raised |-> smp.raised,
                     data   |-> IF smp.raised THEN x.data
                                ELSE Append(x.data,
                                        MakeRow(season, month, smp.values)),
                     rng    |-> smp.rng,
                     drawn  |-> x.drawn \o smp.values]))

\* n iterations of the inner loop for one month, one after the other (the
\* first half of them, then the rest).
RECURSIVE DaysLoop(_, _, _, _, _)
DaysLoop(n, season, season_ranges, month, st) ==
    IF n = 0 THEN st
    ELSE IF n = 1 THEN DayBody(season, season_ranges, month, st)
    ELSE Eval(DaysLoop(n \div 2, season, season_ranges, month, st),
              LAMBDA mid :
                DaysLoop(n - n \div 2, season, season_ranges, month, mid))

\* `for month, days in season_months.items()` from entry i on.
RECURSIVE MonthsLoop(_, _, _, _, _)
MonthsLoop(i, season, season_ranges, season_months, st) ==
    Eval(st, LAMBDA x :
        IF i > Len(season_months) \/ x.raised THEN x
        ELSE MonthsLoop(i + 1, season, season_ranges, season_months,
                DaysLoop(RangeLen(season_months[i][2]), season, season_ranges,
                         season_months[i][1], x)))

\* The body run with season_ranges taken from the first season of the table,
\* whatever the season asked for.
generate_seasonal_data_first_ranges(season, ranges, months_days, s) ==
    MonthsLoop(1, season, ranges[SeasonOrder[1]], months_days[season],
               [raised |-> FALSE, data |-> <<>>, rng |-> s, drawn |-> <<>>])

\* The body of generate_seasonal_data(season, feature_ranges, months_days), run
\* with the random source in state s: [raised, data, rng, drawn].
generate_seasonal_data(season, ranges, months_days, s) ==
    MonthsLoop(1, season, ranges[season], months_days[season],
               [raised |-> FALSE, data |-> <<>>, rng |-> s, drawn |-> <<>>])

-----------------------------------------------------------------------------
(* st.cache_data *)

\* A store that is never consulted.
CacheNeverHit(entry) == FALSE

\* Does the store hold a value for the call?
CacheHit(entry) == entry.hit

\* generate_seasonal_data behind @st.cache_data.  The key is the argument
\* tuple; the two tables never change in a run, which leaves the season.  A
\* hit returns the stored table and runs no code; a call that raises stores
\* nothing.  [raised, data, rng, drawn, cache].
cached_generate_seasonal_data(season, cache, s) ==
    IF CacheHit(cache[season])
    THEN [raised |-> FALSE, data |-> cache[season].value, rng |-> s,
          drawn |-> <<>>,
          cache |-> cache]
    ELSE Eval(generate_seasonal_data(season, feature_ranges,
                                     season_months_days, s),
              LAMBDA r :
                [raised |-> r.raised, data |-> r.data, rng |-> r.rng,
                 drawn |-> r.drawn,
                 cache |-> IF r.raised THEN cache
                           ELSE [cache EXCEPT ![season] = Entry(r.data)]])

-----------------------------------------------------------------------------
(* generate_all_seasons_data *)

\* The tables' rows with every later table put in front.
RECURSIVE ConcatPrepend(_)
ConcatPrepend(tables) ==
    IF tables = <<>> THEN <<>> ELSE ConcatPrepend(Tail(tables)) \o Head(tables)

RECURSIVE Concat(_)
\* pd.concat(all_data, ignore_index=True): the tables' rows, table after table.
Concat(tables) ==
    IF tables = <<>> THEN <<>> ELSE Head(tables) \o Concat(Tail(tables))

\* `for season in ['summer', 'monsoon', 'winter']` from entry i on.
\* st = [raised, all_data, rng, drawn, cache].
RECURSIVE SeasonsLoop(_, _)
SeasonsLoop(i, st) ==
    Eval(st, LAMBDA x :
        IF i > Len(SeasonOrder) \/ x.raised THEN x
        ELSE Eval(cached_generate_seasonal_data(SeasonOrder[i], x.cache, x.rng),
                  LAMBDA r :
                    SeasonsLoop(i + 1,
                        [raised   |-> r.raised,
                         all_data |-> IF r.raised THEN x.all_data
                                      ELSE Append(x.all_data, r.data),
                         rng      |-> r.rng,
                         drawn    |-> x.drawn \o r.drawn,
                         cache    |-> r.cache])))

\* The body of generate_all_seasons_data():
\* [raised, data, rng, drawn, cache_seasonal].
generate_all_seasons_data(cache, s) ==
    Eval(SeasonsLoop(1, [raised |-> FALSE, all_data |-> <<>>, rng |-> s,
                         drawn |-> <<>>, cache |-> cache]),
         LAMBDA st :
            [raised |-> st.raised,
             data   |-> IF st.raised THEN <<>> ELSE Concat(st.all_data),
             rng    |-> st.rng, drawn |-> st.drawn, cache_seasonal |-> st.cache])

\* generate_all_seasons_data behind @st.cache_data: it has no arguments, so
\* the store holds at most one table.
\* [raised, data, rng, drawn, cache_seasonal, cache_all].
cached_generate_all_seasons_data(call, cache, s) ==
    IF CacheHit(call)
    THEN [raised |-> FALSE, data |-> call.value, rng |-> s, drawn |-> <<>>,
          cache_seasonal |-> cache, cache_all |-> call]
    ELSE Eval(generate_all_seasons_data(cache, s),
              LAMBDA r :
                [raised |-> r.raised, data |-> r.data, rng |-> r.rng,
                 drawn |-> r.drawn, cache_seasonal |-> r.cache_seasonal,
                 cache_all |-> IF r.raised THEN call ELSE Entry(r.data)])

-----------------------------------------------------------------------------
(* main: the sidebar filters *)

Indices(t) == 1..Len(t)

\* df['kwh'].min() and df['kwh'].max()
KwhMin(t) == CHOOSE m \in {t[i].kwh : i \in Indices(t)} :
                \A i \in Indices(t) : m <= t[i].kwh
KwhMax(t) == CHOOSE m \in {t[i].kwh : i \in Indices(t)} :
                \A i \in Indices(t) : m >= t[i].kwh

\* df[df['season'].isin(selected_seasons)]['month'].unique()
available_months(t, seasons) ==
    {t[i].month : i \in {j \in Indices(t) : t[j].season \in seasons}}

\* The values the slider (min_value, max_value, step=0.1) is tried at: its two
\* ends and SliderStops positions of the 0.1 grid between them, in hundredths.
SliderValues(lo, hi) ==
    {lo, hi} \cup {lo + 10 * ((((hi - lo) \div 10) * j) \div (SliderStops + 1)) :
                    j \in 1..SliderStops}

\* (df['season'].isin(selected_seasons)) & (df['month'].isin(selected_months))
SeasonMonthMask(r, seasons, months) == r.season \in seasons /\ r.month \in months

\* The same with strict comparisons.
KwhMaskStrict(r, kr) == r.kwh > kr[1] /\ r.kwh < kr[2]

\* (filtered_df['kwh'] >= kwh_min) & (filtered_df['kwh'] <= kwh_max)
KwhMask(r, kr) == r.kwh >= kr[1] /\ r.kwh <= kr[2]

\* The two filtering statements of main; t[mask] keeps the rows of t for
\* which the mask holds, in t's order.
Filtered(t, seasons, months, kr) ==
    SelectSeq(SelectSeq(t, LAMBDA r : SeasonMonthMask(r, seasons, months)),
              LAMBDA r : KwhMask(r, kr))

-----------------------------------------------------------------------------
(* Inputs *)

\* The shipped range table with no range for feature f.
WithoutRange(f) ==
    [s \in Seasons |-> [g \in Features \ {f} |-> ShippedRanges[s][g]]]

\* The shipped range table with min and max of feature f exchanged.
WithInvertedRange(f) ==
    [s \in Seasons |->
        [ShippedRanges[s] EXCEPT ![f] = <<ShippedRanges[s][f][2],
                                          ShippedRanges[s][f][1]>>]]

RangeTables ==
    {ShippedRanges} \cup {WithoutRange(f) : f \in Features}
                    \cup {WithInvertedRange(f) : f \in Features}

\* Calendar tables of at most MaxMonths months (the shipped labels, in the
\* shipped order) with any day counts in -1..MaxDays.
DayCounts == (0 - 1)..MaxDays

BoundedCalendars ==
    UNION {{[s \in Seasons |->
                [i \in 1..k |-> <<ShippedMonthsDays[s][i][1], d[i]>>]] :
            d \in [1..k -> DayCounts]} : k \in 0..MaxMonths}

Min(a, b) == IF a < b THEN a ELSE b

\* The shipped calendar cut down: its months are dealt to the seasons in turn
\* (each season's first month, then each season's second month, ...) until k
\* are dealt, and every month has at most d days.
ScaledCalendar(k, d) ==
    [s \in Seasons |->
        [i \in 1..Min((k + 3 - SeasonPos(s)) \div 3, Len(ShippedMonthsDays[s])) |->
            <<ShippedMonthsDays[s][i][1], Min(d, ShippedMonthsDays[s][i][2])>>]]

InitCommon ==
    /\ numpy_strict \in BOOLEAN
    /\ cache_seasonal = [s \in Seasons |-> NoEntry]
    /\ cache_all = NoEntry
    /\ draws = <<>>
    /\ result = [status |-> "none", data |-> <<>>]
    /\ calls = 0
    /\ df = <<>>
    /\ selected_seasons = {}
    /\ selected_months = {}
    /\ kwh_range = <<0, 0>>
    /\ filtered_df = <<>>
    /\ phase = "not run"

\* A test harness about to call generate_seasonal_data directly.
InitGen ==
    /\ InitCommon
    /\ rng \in 0..MaxSeed
    /\ arg_season \in Seasons
    /\ feature_ranges \in RangeTables
    /\ season_months_days \in BoundedCalendars

\* The dashboard with the shipped ranges and a cut-down calendar.
Init ==
    /\ InitCommon
    /\ rng \in 0..MaxSeed
    /\ arg_season = "summer"
    /\ feature_ranges = ShippedRanges
    /\ season_months_days \in {ScaledCalendar(AppMonths, d) : d \in 1..MaxDays}

\* The dashboard as shipped.
InitShipped ==
    /\ InitCommon
    /\ rng \in 0..MaxSeedShipped
    /\ arg_season = "summer"
    /\ feature_ranges = ShippedRanges
    /\ season_months_days = ShippedMonthsDays

-----------------------------------------------------------------------------
(* Actions *)

\* One direct call generate_seasonal_data(arg_season, feature_ranges,
\* season_months_days).
CallGenerateSeasonalData ==
    /\ calls < MaxCalls
    /\ \E r \in {cached_generate_seasonal_data(arg_season, cache_seasonal, rng)} :
           /\ result' = [status |-> IF r.raised THEN "raised" ELSE "returned",
                         data   |-> r.data]
           /\ rng' = r.rng
           /\ draws' = draws \o r.drawn
           /\ cache_seasonal' = r.cache
    /\ calls' = calls + 1
    /\ UNCHANGED <<cache_all, arg_season>>
    /\ UNCHANGED mainVars
    /\ UNCHANGED cfgVars

\* df = generate_all_seasons_data(), as main calls it in the current state.
Generate == cached_generate_all_seasons_data(cache_all, cache_seasonal, rng)

\* One run of the script after df = r.data was generated: main() with the
\* sidebar widgets returning seasons, months and kr = <<kwh_min, kwh_max>>.
main(r, seasons, months, kr) ==
    /\ rng' = r.rng
    /\ draws' = draws \o r.drawn
    /\ cache_seasonal' = r.cache_seasonal
    /\ cache_all' = r.cache_all
    /\ df' = r.data
    /\ selected_seasons' = seasons
    /\ selected_months' = months
    /\ kwh_range' = kr
    /\ filtered_df' = Filtered(r.data, seasons, months, kr)
    /\ phase' = IF phase = "not run" THEN "first run" ELSE "rerun"
    /\ UNCHANGED unitVars
    /\ UNCHANGED cfgVars

\* The first run of the script: every widget returns its default.  (With the
\* tables of Init and InitShipped the generation does not raise and the table
\* is not empty.)
FirstRun ==
    /\ phase = "not run"
    /\ \E r \in {Generate} :
           /\ ~r.raised
           /\ r.data # <<>>
           /\ main(r, Seasons, available_months(r.data, Seasons),
                   <<KwhMin(r.data), KwhMax(r.data)>>)

\* The rerun after the user changed the season multiselect.  The month
\* multiselect is built from the months now available and returns its default,
\* all of them; the slider keeps its value.
ChangeSeasons ==
    /\ phase # "not run"
    /\ \E r \in {Generate} :
           /\ ~r.raised
           /\ r.data # <<>>
           /\ \E ss \in SUBSET Seasons :
                 main(r, ss, available_months(r.data, ss), kwh_range)

\* The rerun after the user changed the month multiselect.
ChangeMonths ==
    /\ phase # "not run"
    /\ \E r \in {Generate} :
           /\ ~r.raised
           /\ r.data # <<>>
           /\ \E sm \in SUBSET available_months(r.data, selected_seasons) :
                 main(r, selected_seasons, sm, kwh_range)

\* The rerun after the user moved the KWH slider.
ChangeSlider ==
    /\ phase # "not run"
    /\ \E r \in {Generate} :
           /\ ~r.raised
           /\ r.data # <<>>
           /\ \E kmin \in SliderValues(KwhMin(r.data), KwhMax(r.data)) :
              \E kmax \in SliderValues(KwhMin(r.data), KwhMax(r.data)) :
                 /\ kmin <= kmax
                 /\ main(r, selected_seasons, selected_months, <<kmin, kmax>>)

\* A rerun that leaves every widget as it is.
RerunUnchanged ==
    /\ phase # "not run"
    /\ \E r \in {Generate} :
           /\ ~r.raised
           /\ r.data # <<>>
           /\ main(r, selected_seasons, selected_months, kwh_range)

-----------------------------------------------------------------------------
(* Specifications *)

\* Direct calls of generate_seasonal_data on bounded inputs.
NextGen == CallGenerateSeasonalData

SpecGen == InitGen /\ [][NextGen]_vars

\* The dashboard on a cut-down calendar.
Next == FirstRun \/ ChangeSeasons \/ ChangeMonths \/ ChangeSlider

Spec == Init /\ [][Next]_vars

\* The dashboard with the shipped tables.
NextShipped == FirstRun \/ RerunUnchanged

SpecShipped == InitShipped /\ [][NextShipped]_vars

-----------------------------------------------------------------------------
(* Properties of generate_seasonal_data, under SpecGen *)

Returned == calls >= 1 /\ result.status = "returned"
Raised   == calls >= 1 /\ result.status = "raised"

\* The arguments of the direct call.
Calendar == season_months_days[arg_season]
SeasonRanges == feature_ranges[arg_season]

RECURSIVE SumDays(_)
SumDays(cal) == IF cal = <<>> THEN 0 ELSE Head(cal)[2] + SumDays(Tail(cal))

RowsOfMonth(t, m) == Cardinality({i \in Indices(t) : t[i].month = m})

MonthLabels(t) == [i \in Indices(t) |-> t[i].month]

HasNegativeDays == \E j \in 1..Len(Calendar) : Calendar[j][2] < 0
HasZeroDays     == \E j \in 1..Len(Calendar) : Calendar[j][2] = 0
HasMissingRange == DOMAIN SeasonRanges # Features
HasInvertedRange ==
    \E f \in DOMAIN SeasonRanges : SeasonRanges[f][1] > SeasonRanges[f][2]
ValidRanges == ~HasMissingRange /\ ~HasInvertedRange

\* The raw samples of row i of the returned table: draws 5i-4 .. 5i.
RawOfRow(i) == SubSeq(draws, 5 * (i - 1) + 1, 5 * i)

\* A stored row's five features, in thousandths.
StoredFeatures(r) ==
    <<10 * r.irradiance, 10 * r.humidity, 10 * r.wind_speed,
      10 * r.ambient_temperature, 10 * r.tilt_angle>>

\* C1: for every season and every calendar table of non-negative day counts
\* the call returns exactly d1+...+dk rows, all tagged with the season, and for
\* each month mi exactly di of them carry the label mi.
C1_RowsPerMonth ==
    (Returned /\ ~HasNegativeDays) =>
        /\ Len(result.data) = SumDays(Calendar)
        /\ \A i \in Indices(result.data) : result.data[i].season = arg_season
        /\ \A j \in 1..Len(Calendar) :
              RowsOfMonth(result.data, Calendar[j][1]) = Calendar[j][2]

\* A call returned a table for a calendar of two months with 2 and 1 days.
C1_Witness ==
    /\ Returned
    /\ Len(Calendar) >= 2
    /\ Calendar[1][2] = 2
    /\ Calendar[2][2] = 1
    /\ RowsOfMonth(result.data, Calendar[1][1]) = 2

\* C3 as stated (on a valid range table): every row's stored kwh is the
\* season's formula applied to that row's own stored (already rounded)
\* features, rounded to 2 decimals.
C3_KwhFromStoredFeatures ==
    (Returned /\ ValidRanges) =>
        \A i \in Indices(result.data) :
            result.data[i].kwh =
                Round2(calc_func(arg_season, StoredFeatures(result.data[i])), 10000)

\* C3 amended: every row's stored kwh is the season's formula applied to that
\* row's own five raw samples, rounded to 2 decimals; the stored features are
\* the same raw samples rounded to 2 decimals, so the stored kwh is within 0.01
\* of the formula applied to the stored features.
C3_KwhFromRawSamples ==
    Returned =>
        /\ Len(draws) = 5 * Len(result.data)
        /\ \A i \in Indices(result.data) :
              /\ result.data[i].kwh =
                    Round2(calc_func(arg_season, RawOfRow(i)), 10000)
              /\ StoredFeatures(result.data[i]) =
                    [k \in 1..5 |-> 10 * Round2(RawOfRow(i)[k], 10)]
              /\ Abs(10000 * result.data[i].kwh
                     - calc_func(arg_season, StoredFeatures(result.data[i])))
                    <= 10000

\* A returned row whose kwh differs from the formula on its stored features.
C3_Witness ==
    /\ Returned
    /\ \E i \in Indices(result.data) :
          /\ result.data[i].kwh =
                Round2(calc_func(arg_season, RawOfRow(i)), 10000)
          /\ result.data[i].kwh #
                Round2(calc_func(arg_season, StoredFeatures(result.data[i])), 10000)

\* C4: every feature of every row of a returned table lies within the
\* [min, max] declared for it in the range table of the row's own season, up
\* to the 0.01 rounding tolerance (min <= max being what makes a range).
C4_FeaturesInRange ==
    Returned =>
        \A i \in Indices(result.data) :
            \A f \in Features :
                /\ f \in DOMAIN feature_ranges[result.data[i].season]
                /\ LET rg == feature_ranges[result.data[i].season][f]
                   IN  rg[1] <= rg[2] =>
                          /\ result.data[i][f] >= 100 * rg[1] - 1
                          /\ result.data[i][f] <= 100 * rg[2] + 1

\* A monsoon table, sampled from the shipped ranges, with a row whose
\* irradiance sits on the declared minimum.
C4_Witness ==
    /\ Returned
    /\ arg_season = "monsoon"
    /\ feature_ranges = ShippedRanges
    /\ \E i \in Indices(result.data) :
          result.data[i].irradiance = 100 * ShippedRanges["monsoon"].irradiance[1]

\* C5: if a feature range of the requested season has min > max (every range
\* being declared and no day count negative), the call ends in an error, and
\* before anything was sampled: no value was drawn from the random source and
\* no table is returned.
C5_InvertedRangeFailsFast ==
    (calls >= 1 /\ HasInvertedRange /\ ~HasMissingRange /\ ~HasNegativeDays)
        => (Raised /\ draws = <<>>)

\* C7: if a required feature range is missing from the requested season's
\* table (no day count being negative), the call ends in an error whatever the
\* calendar (one of all-zero day counts included) and before any feature of any
\* row was sampled.
C7_MissingRangeFailsFast ==
    (calls >= 1 /\ HasMissingRange /\ ~HasNegativeDays)
        => (Raised /\ draws = <<>>)

\* C8: a calendar entry with a negative day count (the range table being
\* valid) makes the call end in an error: no such call returns a table.
C8_NegativeDaysRejected ==
    (calls >= 1 /\ HasNegativeDays /\ ValidRanges) => Raised

\* The calendar without its entries of day count 0.
WithoutZeroEntries(cal) == SelectSeq(cal, LAMBDA e : e[2] # 0)

\* The same call on the calendar without its zero entries.
CallWithoutZeroEntries ==
    generate_seasonal_data(arg_season, feature_ranges,
        [season_months_days EXCEPT ![arg_season] = WithoutZeroEntries(@)], 0)

\* C9: an entry with day count 0 contributes no row and raises nothing: the
\* call raises only if the call without the zero entries does, it returns the
\* same number of rows with the same month labels in the same order as that
\* call, and a calendar whose counts are all 0 yields an empty table.
C9_ZeroDaysContributeNothing ==
    calls >= 1 =>
        /\ Raised <=> CallWithoutZeroEntries.raised
        /\ Returned =>
              /\ Len(result.data) = Len(CallWithoutZeroEntries.data)
              /\ MonthLabels(result.data) = MonthLabels(CallWithoutZeroEntries.data)
        /\ (\A j \in 1..Len(Calendar) : Calendar[j][2] = 0) =>
              (Returned /\ result.data = <<>>)

\* A call returned rows for a calendar that has a zero entry before a month
\* with days.
C9_Witness ==
    /\ Returned
    /\ Len(Calendar) >= 2
    /\ Calendar[1][2] = 0
    /\ Calendar[2][2] > 0
    /\ result.data # <<>>
    /\ result.data[1].month = Calendar[2][1]

-----------------------------------------------------------------------------
(* Properties of the dashboard *)

MonthPos(s, m) ==
    CHOOSE j \in 1..Len(season_months_days[s]) : season_months_days[s][j][1] = m

\* Row a may stand before row b: no later season, and within one season no
\* later month.
InOrder(a, b) ==
    \/ SeasonPos(a.season) < SeasonPos(b.season)
    \/ /\ a.season = b.season
       /\ MonthPos(a.season, a.month) <= MonthPos(b.season, b.month)

\* C2 (SpecShipped): the table main gets is the summer block, then the monsoon
\* block, then the winter block, as generate_seasonal_data returned them; no
\* row of a later season or month stands before a row of an earlier one; with
\* the shipped calendar it has 122 + 123 + 120 = 365 rows.
C2_BlocksInOrder ==
    phase # "not run" =>
        /\ df = cache_seasonal["summer"].value \o cache_seasonal["monsoon"].value
                   \o cache_seasonal["winter"].value
        /\ \A s \in Seasons :
              \A i \in Indices(cache_seasonal[s].value) :
                  cache_seasonal[s].value[i].season = s
        /\ \A i \in 1..(Len(df) - 1) : InOrder(df[i], df[i + 1])
        /\ Len(cache_seasonal["summer"].value) = 122
        /\ Len(cache_seasonal["monsoon"].value) = 123
        /\ Len(cache_seasonal["winter"].value) = 120
        /\ Len(df) = 365

\* The shipped dashboard generated its table: 365 rows from March to February.
C2_Witness ==
    /\ phase # "not run"
    /\ season_months_days = ShippedMonthsDays
    /\ Len(df) = 365
    /\ df[1].month = "March"
    /\ df[123].month = "July"
    /\ df[365].month = "February"

\* C6 (Spec): once generate_all_seasons_data has been called, every later call
\* returns the table of the first call, draws nothing from the random source,
\* and the stored table stays as it is.
C6_Memoized ==
    [][phase # "not run" => /\ df' = df
                    /\ cache_all' = cache_all
                    /\ cache_seasonal' = cache_seasonal
                    /\ rng' = rng
                    /\ draws' = draws]_vars

\* main ran again after the first run and holds the table of the first run,
\* with no draw beyond the five per row of that run.
C6_Witness ==
    /\ phase = "rerun"
    /\ df = cache_all.value
    /\ Len(draws) = 5 * Len(df)

\* The rows main is to keep.
Selected(r) ==
    /\ r.season \in selected_seasons
    /\ r.month \in selected_months
    /\ kwh_range[1] <= r.kwh
    /\ r.kwh <= kwh_range[2]

\* C10 (Spec): after a run of main the filtered table is exactly the rows of
\* the generated table with a selected season, a selected month and a kwh
\* within the slider's bounds, in their original order, and the generated
\* table is still the stored one: the concatenation of the season tables.
C10_FilterIsSelection ==
    phase # "not run" =>
        /\ filtered_df = SelectSeq(df, Selected)
        /\ df = cache_all.value
        /\ df = cache_seasonal["summer"].value \o cache_seasonal["monsoon"].value
                   \o cache_seasonal["winter"].value

\* A rerun whose filter keeps some rows and drops others, one of them for its
\* kwh alone.
C10_Witness ==
    /\ phase = "rerun"
    /\ filtered_df # <<>>
    /\ Len(filtered_df) < Len(df)
    /\ \E i \in Indices(df) :
          /\ df[i].season \in selected_seasons
          /\ df[i].month \in selected_months
          /\ df[i].kwh > kwh_range[2]

\* A rerun whose filter keeps no row at all.
C10_WitnessEmpty ==
    /\ phase = "rerun"
    /\ filtered_df = <<>>
    /\ df = cache_all.value
=============================================================================
